---- MODULE Spec2Model ----
(***************************************************************************)
(* jaundice-rate: the aiohttp handler handle_root_get_request and the      *)
(* per-article coroutine process_article of main.py, run by an anyio task  *)
(* group on the asyncio event loop.                                        *)
(*                                                                         *)
(* One action is one uninterrupted run of a coroutine between two of its   *)
(* suspension points (await fetch, await split_by_words, the exit of the   *)
(* task group, the exit of the client session).                            *)
(*                                                                         *)
(* Text is a sequence of one-character strings.  An optional value is None *)
(* (the empty tuple) or Some(v) (the one-element tuple).  A score is kept  *)
(* in hundredths (33.33 is 3333) and times in whole seconds.               *)
(***************************************************************************)
EXTENDS Integers, Sequences, FiniteSets

\* ---------------------------------------------------------------- bounds
\* Longest value of the "urls" query parameter that is enumerated in full.
MaxQueryLen == 3
\* Longest word list the tokenizer returns.
MaxWords == 1

\* Longest word list and longest lexicon the scorer is tried on.
MaxScoreWords == 3
MaxLexicon == 2

\* ------------------------------------------------------ program constants
TIMEOUT_SECONDS == 5
\* len(requested_urls) > 10 is refused
MAX_URLS == 10

None == << >>
Some(v) == << v >>

ProcessingStatus == {"OK", "FETCH_ERROR", "PARSING_ERROR", "TIMEOUT"}

\* The characters of a query value: two url characters and the separator.
UrlChars == {"a", "b"}
Comma == ","
QueryChars == UrlChars \cup {Comma}

\* The words the tokenizer can return, and the charged words of the lexicon.
Vocabulary == {"good", "dull"}

RECURSIVE SeqsUpTo(_, _)
SeqsUpTo(S, n) ==
    IF n = 0 THEN {<< >>}
    ELSE LET shorter == SeqsUpTo(S, n - 1)
         IN shorter \cup {Append(s, c) : s \in shorter, c \in S}

RECURSIVE Repeat(_, _)
Repeat(c, n) == IF n = 0 THEN << >> ELSE Append(Repeat(c, n - 1), c)

\* The requests: no "urls" parameter, every short value, and the two values
\* of empty entries that sit on either side of the cap (10 and 11 entries).
Queries ==
    {None}
      \cup {Some(q) : q \in SeqsUpTo(QueryChars, MaxQueryLen)}
      \cup {Some(Repeat(Comma, MAX_URLS - 1)), Some(Repeat(Comma, MAX_URLS))}

WordLists == SeqsUpTo(Vocabulary, MaxWords)
Lexicons == {<< >>, <<"good">>}
\* The time the tokenizer takes: none, less than a budget, more than one.
SplitDurations == {0, 2, TIMEOUT_SECONDS + 1}
\* The time a fetch that hands over the page has taken: less than the budget,
\* or more.  The deadline is a timer of the event loop, so a page whose wake-up
\* is already queued is handed over even after the budget.
FetchDurations == {TIMEOUT_SECONDS - 1, TIMEOUT_SECONDS + 2}

\* ------------------------------------------------------------------ state
VARIABLES
    charged_words,       \* get_charged_words(), bound by server.py
    query,               \* request.query.get('urls') of the request
    hpc,                 \* where handle_root_get_request is
    requested_urls,      \* the handler's local list
    task,                \* the task group's children, one per spawn
    processing_results,  \* the list every process_article appends to
    response,            \* the handler's local response list
    http_status,         \* what the client receives: 0 while pending
    body                 \* the body the client receives

vars == <<charged_words, query, hpc, requested_urls, task,
          processing_results, response, http_status, body>>

\* ------------------------------------------------------------ str.split
RECURSIVE FirstComma(_, _)
FirstComma(s, i) ==
    IF i > Len(s) THEN 0
    ELSE IF s[i] = Comma THEN i ELSE FirstComma(s, i + 1)

RECURSIVE Split(_)
Split(s) ==
    LET k == FirstComma(s, 1)
    IN IF k = 0 THEN << s >>
       ELSE << SubSeq(s, 1, k - 1) >> \o Split(SubSeq(s, k + 1, Len(s)))

\* ------------------------------------------------- the scorer (text_tools)
RECURSIVE CountCharged(_, _)
CountCharged(article_words, lexicon) ==
    IF article_words = << >> THEN 0
    ELSE (IF \E k \in DOMAIN lexicon : lexicon[k] = Head(article_words)
          THEN 1 ELSE 0)
         + CountCharged(Tail(article_words), lexicon)

Max(a, b) == IF a >= b THEN a ELSE b

\* 100 * charged / max(1, total), rounded to 2 digits, in hundredths
calculate_jaundice_rate(article_words, lexicon) ==
    LET total == Max(1, Len(article_words))
    IN (2 * 10000 * CountCharged(article_words, lexicon) + total)
         \div (2 * total)

\* ------------------------------------------------------ process_article
\* session.get raises InvalidURL for a url without a host before it waits.
IsMalformed(url) == url = << >>

\* What the awaited fetch can end with, for a well-formed url.
FetchFailures ==
    {"ClientConnectorError", "ClientResponseError", "deadline", "TimeoutError"}

\* Mutant of FetchStatus: timeout_manager.expired is not looked at, so every
\* timeout error of the fetch stage becomes TIMEOUT.
FetchStatus_expired_unchecked(exc) ==
    CASE exc \in {"ClientConnectorError", "InvalidURL"} -> "FETCH_ERROR"
      [] exc \in {"deadline", "TimeoutError"} -> "TIMEOUT"
      [] OTHER -> "raise"

\* The except clauses of the fetch stage: the status they leave, or "raise"
\* when the exception leaves process_article.
FetchStatus(exc) ==
    CASE exc \in {"ClientConnectorError", "InvalidURL"} -> "FETCH_ERROR"
      [] exc = "deadline" -> "TIMEOUT"
      [] OTHER -> "raise"

\* The tuple appended when the fetch stage did not leave status OK.
FetchFailedOutput(url, status) == <<url, status, None, None, None>>

\* Mutant of SanitizeStatus: ArticleNotFound is swallowed and the status
\* stays OK.
SanitizeStatus_swallowed(has_sanitizer, san) == "OK"

\* What the sanitizer can do: return the text, raise ArticleNotFound, or raise
\* any other exception.
SanitizerOutcomes == {"ok", "ArticleNotFound", "ValueError"}

\* The status after the extraction block; san is what the sanitizer does.
\* Only ArticleNotFound is caught: "raise" when another exception leaves
\* process_article.
SanitizeStatus(has_sanitizer, san) ==
    CASE has_sanitizer /\ san = "ArticleNotFound" -> "PARSING_ERROR"
      [] has_sanitizer /\ san \notin {"ok", "ArticleNotFound"} -> "raise"
      [] OTHER -> "OK"

ParsingFailedOutput(url, status) == <<url, status, None, None, None>>

\* Mutant of SplitBudget: one clock for the whole pipeline, so the time the
\* fetch took is taken off the tokenizer's budget.
SplitBudget_shared_clock(fetch_elapsed) == TIMEOUT_SECONDS - fetch_elapsed

\* The budget of the tokenizer's timeout block: a new timeout(TIMEOUT_SECONDS)
\* is entered, whatever time the fetch stage took.
SplitBudget(fetch_elapsed) == TIMEOUT_SECONDS

\* timeout_manager.remaining when the block is left after took seconds: the
\* time left to the deadline, never below 0.
TimeRemaining(budget, took) == IF budget > took THEN budget - took ELSE 0

\* What the awaited tokenizer can end with instead of returning its words: its
\* own deadline, a timeout error raised while that deadline has not expired,
\* or any other exception.
SplitFailures == {"deadline", "TimeoutError", "ValueError"}

\* The except clause of the tokenizer stage: the status it leaves, or "raise"
\* when the exception leaves process_article.
SplitStatus(exc) ==
    CASE exc = "deadline" -> "TIMEOUT"
      [] OTHER -> "raise"

\* Mutant of SplitTimeoutOutput: processing_time is not set on the timeout
\* path, as on the fetch stage's timeout path.
SplitTimeoutOutput_no_time(url) == <<url, "TIMEOUT", None, None, None>>

\* The tuple appended when the tokenizer's deadline expired.
SplitTimeoutOutput(url) ==
    <<url, "TIMEOUT", None, None, Some(TIMEOUT_SECONDS)>>

\* Mutant of ScoredOutput: the scorer is called with its arguments swapped.
ScoredOutput_swapped_arguments(url, article_words, lexicon, remaining) ==
    <<url, "OK",
      Some(calculate_jaundice_rate(lexicon, article_words)),
      Some(Len(article_words)),
      Some(TIMEOUT_SECONDS - remaining)>>

\* Mutant of ScoredOutput: word_number is left at its default.
ScoredOutput_no_word_number(url, article_words, lexicon, remaining) ==
    <<url, "OK",
      Some(calculate_jaundice_rate(article_words, lexicon)),
      None,
      Some(TIMEOUT_SECONDS - remaining)>>

\* The tuple appended when every stage succeeded.
ScoredOutput(url, article_words, lexicon, remaining) ==
    <<url, "OK",
      Some(calculate_jaundice_rate(article_words, lexicon)),
      Some(Len(article_words)),
      Some(TIMEOUT_SECONDS - remaining)>>

Terminal == {"done", "raised", "cancelled"}

\* A child as spawn leaves it; the handler passes SANITIZERS['inosmi_ru'].
NewTask(url) ==
    [url |-> url, sanitizer_func |-> TRUE,
     pc |-> "spawned", fetched |-> "not_called",
     sanitized |-> "not_called", split |-> "not_called", scored |-> FALSE,
     fetch_elapsed |-> None, split_elapsed |-> None, article_words |-> None,
     result |-> None, cancel |-> "none"]

\* A child that ends by raising cancels the task group's scope.  The cancel
\* is only requested here: it reaches a sibling when the event loop next
\* resumes it, and a sibling whose wake-up was already queued is resumed with
\* the outcome of its await instead.
CancelSiblings(t, i) ==
    [j \in DOMAIN t |->
        IF j # i /\ t[j].pc \notin Terminal /\ t[j].cancel = "none"
        THEN [t[j] EXCEPT !.cancel = "requested"]
        ELSE t[j]]

\* The await the child is suspended at can still hand over its outcome: the
\* child has not suspended again since the scope was cancelled.
CanResume(t) == t.cancel # "due"

\* The child suspends at its next await; in a cancelled scope nothing but
\* CancelledError resumes it from there.
Suspend(t, at) ==
    [t EXCEPT !.pc = at,
              !.cancel = IF t.cancel = "none" THEN "none" ELSE "due"]

\* Mutant of Finish: the tuple is appended but the coroutine does not end,
\* so the stage it was in is entered again.
Finish_stage_again(i, changes, out) ==
    /\ task' = [task EXCEPT ![i] = [changes EXCEPT !.result = Some(out)]]
    /\ processing_results' = Append(processing_results, out)

\* The append of the last line, after which the coroutine returns.
Finish(i, changes, out) ==
    /\ task' = [task EXCEPT ![i] = [changes EXCEPT !.pc = "done",
                                                   !.result = Some(out)]]
    /\ processing_results' = Append(processing_results, out)

Raise(i, changes) ==
    /\ task' = CancelSiblings([task EXCEPT ![i] =
                                  [changes EXCEPT !.pc = "raised"]], i)
    /\ UNCHANGED processing_results

\* Every child has run up to its first suspension.  The event loop runs the
\* children's first steps in spawn order before it handles any completion.
AllStarted == \A j \in DOMAIN task : task[j].pc # "spawned"

\* The first run of the coroutine, up to "await fetch".
process_article_start(i) ==
    /\ hpc = "task_group"
    /\ task[i].pc = "spawned"
    /\ \A j \in 1..(i - 1) : task[j].pc # "spawned"
    /\ IF IsMalformed(task[i].url)
       THEN Finish(i, [task[i] EXCEPT !.fetched = "InvalidURL"],
                   FetchFailedOutput(task[i].url, FetchStatus("InvalidURL")))
       ELSE /\ task' = [task EXCEPT ![i].pc = "fetching"]
            /\ UNCHANGED processing_results
    /\ UNCHANGED <<charged_words, query, hpc, requested_urls,
                   response, http_status, body>>

\* The fetch ended with an exception.
process_article_fetch_failed(i, exc) ==
    /\ hpc = "task_group"
    /\ AllStarted
    /\ task[i].pc = "fetching"
    /\ CanResume(task[i])
    /\ LET t == [task[i] EXCEPT !.fetched = exc]
       IN IF FetchStatus(exc) = "raise"
          THEN Raise(i, t)
          ELSE Finish(i, t, FetchFailedOutput(t.url, FetchStatus(exc)))
    /\ UNCHANGED <<charged_words, query, hpc, requested_urls,
                   response, http_status, body>>

\* The fetch returned the page: the extraction block, then "await split",
\* at which the tokenizer suspends.
process_article_fetched(i, san, elapsed) ==
    /\ hpc = "task_group"
    /\ AllStarted
    /\ task[i].pc = "fetching"
    /\ CanResume(task[i])
    /\ LET called == IF task[i].sanitizer_func THEN san ELSE "not_called"
           t == [task[i] EXCEPT !.fetched = "ok", !.sanitized = called,
                                !.fetch_elapsed = Some(elapsed)]
           status == SanitizeStatus(task[i].sanitizer_func, san)
       IN CASE status = "OK" ->
                 /\ task' = [task EXCEPT ![i] =
                                 Suspend([t EXCEPT !.split = "running"],
                                         "tokenizing")]
                 /\ UNCHANGED processing_results
            [] status = "raise" -> Raise(i, t)
            [] OTHER -> Finish(i, t, ParsingFailedOutput(t.url, status))
    /\ UNCHANGED <<charged_words, query, hpc, requested_urls,
                   response, http_status, body>>

\* The fetch returned the page, the sanitizer accepted it and split_by_words
\* returned article_words without suspending: the coroutine runs from
\* "await fetch" to the append in one step.
process_article_fetched_scored(i, elapsed, article_words, took) ==
    /\ hpc = "task_group"
    /\ AllStarted
    /\ task[i].pc = "fetching"
    /\ CanResume(task[i])
    /\ SanitizeStatus(task[i].sanitizer_func, "ok") = "OK"
    /\ Finish(i, [task[i] EXCEPT
                      !.fetched = "ok",
                      !.sanitized = IF task[i].sanitizer_func
                                    THEN "ok" ELSE "not_called",
                      !.fetch_elapsed = Some(elapsed),
                      !.split = "ok", !.scored = TRUE,
                      !.article_words = Some(article_words),
                      !.split_elapsed = Some(took)],
              ScoredOutput(task[i].url, article_words, charged_words,
                           TimeRemaining(SplitBudget(elapsed), took)))
    /\ UNCHANGED <<charged_words, query, hpc, requested_urls,
                   response, http_status, body>>

\* As above, but split_by_words raised without suspending.  Its deadline
\* cannot fire then, so the exception always leaves process_article.
process_article_fetched_split_raised(i, elapsed, exc) ==
    /\ hpc = "task_group"
    /\ AllStarted
    /\ task[i].pc = "fetching"
    /\ CanResume(task[i])
    /\ exc # "deadline"
    /\ SplitStatus(exc) = "raise"
    /\ SanitizeStatus(task[i].sanitizer_func, "ok") = "OK"
    /\ Raise(i, [task[i] EXCEPT
                     !.fetched = "ok",
                     !.sanitized = IF task[i].sanitizer_func
                                   THEN "ok" ELSE "not_called",
                     !.fetch_elapsed = Some(elapsed),
                     !.split = exc])
    /\ UNCHANGED <<charged_words, query, hpc, requested_urls,
                   response, http_status, body>>

\* split_by_words ended with an exception after took seconds: its deadline
\* expired (TIMEOUT is appended), which needs the budget of its timeout block
\* to be used up, or the exception is raised out of process_article.  An
\* overdue deadline also wins over the cancellation of the scope: the timeout
\* block turns the CancelledError that resumes the child into its TimeoutError,
\* with expired set.
process_article_split_failed(i, exc, took) ==
    /\ hpc = "task_group"
    /\ AllStarted
    /\ task[i].pc = "tokenizing"
    /\ exc # "deadline" => CanResume(task[i])
    /\ exc = "deadline" => took >= SplitBudget(task[i].fetch_elapsed[1])
    /\ IF SplitStatus(exc) = "raise"
       THEN Raise(i, [task[i] EXCEPT !.split = exc])
       ELSE Finish(i, [task[i] EXCEPT !.split = exc,
                                      !.split_elapsed = Some(took)],
                   SplitTimeoutOutput(task[i].url))
    /\ UNCHANGED <<charged_words, query, hpc, requested_urls,
                   response, http_status, body>>

\* split_by_words returned article_words after took seconds, before its
\* deadline was delivered.
process_article_scored(i, article_words, took) ==
    /\ hpc = "task_group"
    /\ AllStarted
    /\ task[i].pc = "tokenizing"
    /\ CanResume(task[i])
    /\ Finish(i, [task[i] EXCEPT
                      !.split = "ok", !.scored = TRUE,
                      !.article_words = Some(article_words),
                      !.split_elapsed = Some(took)],
              ScoredOutput(task[i].url, article_words, charged_words,
                           TimeRemaining(SplitBudget(task[i].fetch_elapsed[1]),
                                         took)))
    /\ UNCHANGED <<charged_words, query, hpc, requested_urls,
                   response, http_status, body>>

\* The cancellation of the task group's scope reaches a child at its await:
\* CancelledError leaves process_article and nothing is appended.
process_article_cancelled(i) ==
    /\ hpc = "task_group"
    /\ task[i].pc \in {"fetching", "tokenizing"}
    /\ task[i].cancel # "none"
    /\ task' = [task EXCEPT ![i].pc = "cancelled"]
    /\ UNCHANGED <<charged_words, query, hpc, requested_urls,
                   processing_results, response, http_status, body>>

\* ------------------------------------------------ handle_root_get_request
\* Mutant of IsFalsy: only a missing parameter is caught, an empty one is not.
IsFalsy_only_missing(value) == value = None

\* "not urls_parameter_value": the parameter is missing or empty.
IsFalsy(value) == value = None \/ value = Some(<< >>)

\* No urls parameter, or an empty one: json_response({}).
handle_request_without_urls ==
    /\ hpc = "idle"
    /\ IsFalsy(query)
    /\ hpc' = "returned_empty"
    /\ http_status' = 200
    /\ body' = [kind |-> "object", error |-> None]
    /\ UNCHANGED <<charged_words, query, requested_urls, task,
                   processing_results, response>>

\* Mutant of TooManyUrls: a request of exactly 10 urls is refused too.
TooManyUrls_off_by_one(urls) == Len(urls) >= MAX_URLS

TooManyUrls(urls) == Len(urls) > MAX_URLS

\* More than 10 entries: HTTPBadRequest with a JSON object naming the error.
handle_request_too_many_urls ==
    /\ hpc = "idle"
    /\ ~IsFalsy(query)
    /\ TooManyUrls(Split(query[1]))
    /\ requested_urls' = Split(query[1])
    /\ hpc' = "bad_request"
    /\ http_status' = 400
    /\ body' = [kind |-> "object",
                error |-> Some("too many urls in request, should be 10 or less")]
    /\ UNCHANGED <<charged_words, query, task,
                   processing_results, response>>

\* The session and the task group are entered and one child is spawned per
\* entry; spawn does not suspend, so no child runs before the loop ends.
handle_request_spawn ==
    /\ hpc = "idle"
    /\ ~IsFalsy(query)
    /\ ~TooManyUrls(Split(query[1]))
    /\ requested_urls' = Split(query[1])
    /\ task' = [i \in 1..Len(Split(query[1])) |-> NewTask(Split(query[1])[i])]
    /\ processing_results' = << >>
    /\ hpc' = "task_group"
    /\ UNCHANGED <<charged_words, query, response, http_status, body>>

UrlResult(r) ==
    [status |-> r[2], url |-> r[1], score |-> r[3], words_count |-> r[4]]

\* Mutant of ChildrenJoined: the task group is left as soon as one child has
\* finished.
ChildrenJoined_first_done(t) == \E i \in DOMAIN t : t[i].pc = "done"

\* Mutant of ChildrenJoined: a child that raised or was cancelled counts as
\* finished and its exception is dropped.
ChildrenJoined_any_end(t) == \A i \in DOMAIN t : t[i].pc \in Terminal

\* The task group's exit returns normally: every child returned.
ChildrenJoined(t) == \A i \in DOMAIN t : t[i].pc = "done"

\* Every child finished and none raised: the response list is built.
task_group_exit ==
    /\ hpc = "task_group"
    /\ ChildrenJoined(task)
    /\ response' = [k \in DOMAIN processing_results |->
                       UrlResult(processing_results[k])]
    /\ hpc' = "built"
    /\ UNCHANGED <<charged_words, query, requested_urls, task,
                   processing_results, http_status, body>>

\* Every child finished and one raised: the exception leaves the task group
\* and the handler, and aiohttp answers 500.
task_group_raise ==
    /\ hpc = "task_group"
    /\ \A i \in DOMAIN task : task[i].pc \in Terminal
    /\ \E i \in DOMAIN task : task[i].pc = "raised"
    /\ hpc' = "server_error"
    /\ http_status' = 500
    /\ body' = [kind |-> "server_error", error |-> None]
    /\ UNCHANGED <<charged_words, query, requested_urls, task,
                   processing_results, response>>

\* The session is closed and json_response(response) is returned.
return_response ==
    /\ hpc = "built"
    /\ hpc' = "returned_json"
    /\ http_status' = 200
    /\ body' = [kind |-> "array", error |-> None]
    /\ UNCHANGED <<charged_words, query, requested_urls, task,
                   processing_results, response>>

\* ---------------------------------------------------------- specification
Init ==
    /\ charged_words \in Lexicons
    /\ query \in Queries
    /\ hpc = "idle"
    /\ requested_urls = << >>
    /\ task = << >>
    /\ processing_results = << >>
    /\ response = << >>
    /\ http_status = 0
    /\ body = [kind |-> "pending", error |-> None]

\* The children suspended at "await fetch" and at "await split_by_words".
AtFetch == {i \in DOMAIN task : task[i].pc = "fetching"}
AtSplit == {i \in DOMAIN task : task[i].pc = "tokenizing"}

Next ==
    \/ handle_request_without_urls
    \/ handle_request_too_many_urls
    \/ handle_request_spawn
    \/ \E i \in DOMAIN task : process_article_start(i)
    \/ \E i \in AtFetch : \E exc \in FetchFailures :
           process_article_fetch_failed(i, exc)
    \/ \E i \in AtFetch : \E san \in SanitizerOutcomes :
           \E elapsed \in FetchDurations : process_article_fetched(i, san, elapsed)
    \/ \E i \in AtFetch : \E elapsed \in FetchDurations :
           \E w \in WordLists : \E took \in SplitDurations :
               process_article_fetched_scored(i, elapsed, w, took)
    \/ \E i \in AtFetch : \E elapsed \in FetchDurations :
           \E exc \in SplitFailures :
               process_article_fetched_split_raised(i, elapsed, exc)
    \/ \E i \in AtSplit : \E exc \in SplitFailures :
           \E took \in SplitDurations : process_article_split_failed(i, exc, took)
    \/ \E i \in DOMAIN task : process_article_cancelled(i)
    \/ \E i \in AtSplit : \E w \in WordLists : \E took \in SplitDurations :
           process_article_scored(i, w, took)
    \/ task_group_exit
    \/ task_group_raise
    \/ return_response

Spec == Init /\ [][Next]_vars

\* The scoring block alone: one pipeline of a one-url request waits for its
\* tokenizer, which returns any word list, under any lexicon.
ScoreInit ==
    /\ charged_words \in SeqsUpTo(Vocabulary, MaxLexicon)
    /\ query = Some(<<"a">>)
    /\ hpc = "task_group"
    /\ requested_urls = Split(<<"a">>)
    /\ \E elapsed \in FetchDurations :
          task = << [NewTask(<<"a">>) EXCEPT
                        !.pc = "tokenizing", !.fetched = "ok",
                        !.sanitized = "ok", !.split = "running",
                        !.fetch_elapsed = Some(elapsed)] >>
    /\ processing_results = << >>
    /\ response = << >>
    /\ http_status = 0
    /\ body = [kind |-> "pending", error |-> None]

ScoreNext ==
    \E w \in SeqsUpTo(Vocabulary, MaxScoreWords) : \E took \in SplitDurations :
        process_article_scored(1, w, took)

ScoreSpec == ScoreInit /\ [][ScoreNext]_vars

\* ----------------------------------------------------------------- claims
\* The task group has been left, normally or by an exception.
GroupFinished == hpc \in {"built", "returned_json", "server_error"}

\* The stage outcomes the failure taxonomy names (a timeout error raised
\* while the stage's own deadline has not expired, an exception of the
\* sanitizer other than ArticleNotFound, and an exception of the tokenizer
\* other than its deadline, are outside it).
TaxonomyOutcomes ==
    {"ok", "ClientConnectorError", "InvalidURL", "ClientResponseError",
     "deadline"}

ForeignFault(t) ==
    \/ t.fetched = "TimeoutError"
    \/ t.sanitized = "ValueError"
    \/ t.split \in {"TimeoutError", "ValueError"}

NoForeignFault == \A i \in DOMAIN task : ~ForeignFault(task[i])

Count(seq, x) == Cardinality({k \in DOMAIN seq : seq[k] = x})

ResultUrls == [k \in DOMAIN processing_results |-> processing_results[k][1]]

\* C1: once the task group has finished, the result list holds exactly one
\* entry per submitted url (same length, same multiset of urls), whatever
\* taxonomy outcome each job had.
C1_OneResultPerJob ==
    (GroupFinished /\ NoForeignFault) =>
        /\ Len(processing_results) = Len(requested_urls)
        /\ \A k \in DOMAIN requested_urls :
              Count(ResultUrls, requested_urls[k])
                  = Count(requested_urls, requested_urls[k])

\* C2: process_article never ends by raising for an outcome of the failure
\* taxonomy: the call ends with one result appended whose status is one of
\* the four statuses.
C2_NoTaxonomyFaultEscapes ==
    \A i \in DOMAIN task :
        (task[i].pc \in {"done", "raised"}
            /\ task[i].fetched \in TaxonomyOutcomes
            /\ ~ForeignFault(task[i])) =>
            /\ task[i].pc = "done"
            /\ task[i].result # None
            /\ task[i].result[1][2] \in ProcessingStatus

\* C3: a fetch that fails by connection failure, malformed url or non-success
\* response gives the result (url, FETCH_ERROR, None, None, None), and
\* neither the sanitizer nor the tokenizer is called for that job.
C3_FetchFailureIsFetchError ==
    \A i \in DOMAIN task :
        task[i].fetched
            \in {"ClientConnectorError", "InvalidURL", "ClientResponseError"} =>
            /\ task[i].result
                   = Some(<<task[i].url, "FETCH_ERROR", None, None, None>>)
            /\ task[i].sanitized = "not_called"
            /\ task[i].split = "not_called"

\* The status the spec gives to a job from that job's own stage outcomes.
OwnStatus(t) ==
    CASE t.fetched
            \in {"ClientConnectorError", "InvalidURL", "ClientResponseError"}
            -> "FETCH_ERROR"
      [] t.fetched = "deadline" -> "TIMEOUT"
      [] t.sanitized = "ArticleNotFound" -> "PARSING_ERROR"
      [] t.split = "deadline" -> "TIMEOUT"
      [] OTHER -> "OK"

\* C4: isolation: no pipeline is cancelled because another one failed or
\* timed out, and once the batch is over every job whose own pipeline did not
\* raise has a result whose status follows from that job's own stage outcomes.
C4_Isolation ==
    NoForeignFault =>
        /\ \A i \in DOMAIN task : task[i].pc # "cancelled"
        /\ GroupFinished =>
              \A i \in DOMAIN task :
                  task[i].pc # "raised" =>
                      /\ task[i].result # None
                      /\ task[i].result[1][2] = OwnStatus(task[i])

\* A job one of whose stages failed.
ArticleFailed(t) ==
    \/ t.fetched \in TaxonomyOutcomes \ {"ok"}
    \/ t.sanitized = "ArticleNotFound"
    \/ t.split = "deadline"

\* C5: for a request of 1 to 10 urls the handler never ends in a server error
\* because of an article's failure; the failed url is in the returned array
\* with a non-OK status and null score and words_count.
C5_NoServerErrorForArticleFailure ==
    /\ (http_status = 500 => ~NoForeignFault)
    /\ hpc = "returned_json" =>
          \A i \in DOMAIN task :
              ArticleFailed(task[i]) =>
                  \E k \in DOMAIN response :
                      /\ response[k].url = task[i].url
                      /\ response[k].status # "OK"
                      /\ response[k].score = None
                      /\ response[k].words_count = None

\* C6: in every appended result, status is OK exactly when score and word
\* count are both present; the two are present or absent together.
C6_ScoreAndWordsIffOk ==
    \A k \in DOMAIN processing_results :
        LET r == processing_results[k]
        IN /\ (r[2] = "OK") <=> (r[3] # None /\ r[4] # None)
           /\ (r[3] = None) <=> (r[4] = None)

C6_Witness ==
    \E k, m \in DOMAIN processing_results :
        /\ processing_results[k][2] = "OK"
        /\ processing_results[k][3] # None
        /\ processing_results[m][2] # "OK"
        /\ processing_results[m][3] = None

\* C7: in every appended result, the processing time is present exactly when
\* the status is OK or TIMEOUT.
C7_TimeIffOkOrTimeout ==
    \A k \in DOMAIN processing_results :
        LET r == processing_results[k]
        IN (r[5] # None) <=> (r[2] \in {"OK", "TIMEOUT"})

\* C8: when the fetch stage's deadline expires, the result is
\* (url, TIMEOUT, None, None, fetch budget) and neither the sanitizer nor the
\* tokenizer is called.
C8_FetchDeadlineIsTimeout ==
    \A i \in DOMAIN task :
        task[i].fetched = "deadline" =>
            /\ task[i].result
                   = Some(<<task[i].url, "TIMEOUT", None, None,
                            Some(TIMEOUT_SECONDS)>>)
            /\ task[i].sanitized = "not_called"
            /\ task[i].split = "not_called"

\* C9: when the tokenizer does not finish within its budget, the result is
\* (url, TIMEOUT, None, None, TIMEOUT_SECONDS) and no score is computed.
C9_SplitDeadlineIsTimeout ==
    \A i \in DOMAIN task :
        task[i].split = "deadline" =>
            /\ task[i].fetched = "ok"
            /\ task[i].result
                   = Some(<<task[i].url, "TIMEOUT", None, None,
                            Some(TIMEOUT_SECONDS)>>)
            /\ Count(processing_results, task[i].result[1]) >= 1
            /\ ~task[i].scored

C9_Witness ==
    \E i \in DOMAIN task :
        /\ task[i].sanitized = "ok"
        /\ task[i].split = "deadline"
        /\ task[i].pc = "done"

\* C10: when the sanitizer rejects the fetched page, the result is
\* (url, PARSING_ERROR, None, None, None) and the tokenizer is never called.
C10_RejectionIsParsingError ==
    \A i \in DOMAIN task :
        task[i].sanitized = "ArticleNotFound" =>
            /\ task[i].fetched = "ok"
            /\ task[i].result
                   = Some(<<task[i].url, "PARSING_ERROR", None, None, None>>)
            /\ Count(processing_results, task[i].result[1]) >= 1
            /\ task[i].split = "not_called"
            /\ ~task[i].scored

C10_Witness ==
    \E i \in DOMAIN task :
        /\ task[i].sanitized = "ArticleNotFound"
        /\ task[i].pc = "done"

\* A child that is still in one of its stages.
Running(t) == t.pc \in {"spawned", "fetching", "tokenizing"}

\* C11: the response is assembled and returned only after every spawned
\* pipeline has ended: while the response is built or returned, no pipeline
\* is still fetching, extracting, tokenizing or scoring.
C11_ResponseAfterAllPipelines ==
    (response # << >> \/ hpc \in {"built", "returned_json"}) =>
        /\ task # << >>
        /\ \A i \in DOMAIN task : ~Running(task[i])

C11_Witness ==
    /\ hpc = "built"
    /\ Len(task) >= 2
    /\ \A i \in DOMAIN task : task[i].pc = "done" /\ task[i].fetched = "ok"

\* The request has been looked at by the handler.
Handled == hpc # "idle"

\* The entries of a non-empty urls value.
Entries == Split(query[1])

HasUrls == query # None /\ query # Some(<< >>)

\* C12: a request of more than 10 entries is answered 400 with a JSON error
\* body and no pipeline is spawned; a request of 10 or fewer entries is
\* accepted and gets exactly one pipeline per entry.
C12_UrlCap ==
    (Handled /\ HasUrls) =>
        IF Len(Entries) > MAX_URLS
        THEN /\ hpc = "bad_request"
             /\ http_status = 400
             /\ body.kind = "object" /\ body.error # None
             /\ task = << >>
             /\ processing_results = << >>
        ELSE /\ hpc # "bad_request"
             /\ http_status # 400
             /\ Len(task) = Len(Entries)
             /\ \A i \in DOMAIN task : task[i].url = Entries[i]

C12_Witness ==
    /\ HasUrls
    /\ Len(Entries) = MAX_URLS + 1
    /\ hpc = "bad_request"
    /\ http_status = 400

\* The request is structurally invalid: no urls parameter, or too many urls.
StructurallyInvalid == query = None \/ (HasUrls /\ Len(Entries) > MAX_URLS)

\* C13 as stated: a request without the urls parameter gets an error
\* response, not a success response, and only structurally invalid requests
\* get an error response.
C13_MissingParameterIsError ==
    Handled =>
        /\ (query = None => http_status >= 400)
        /\ (http_status >= 400 => StructurallyInvalid)

\* C13 as amended: a request whose urls parameter is missing or empty is
\* answered 200 with an empty JSON object; the handler answers with a client
\* error (400) exactly when the request has more than 10 urls.
C13_MissingParameterIsEmptyObject ==
    Handled =>
        /\ ~HasUrls =>
              /\ hpc = "returned_empty"
              /\ http_status = 200
              /\ body.kind = "object" /\ body.error = None
              /\ task = << >>
        /\ (http_status = 400) <=> (HasUrls /\ Len(Entries) > MAX_URLS)
        /\ hpc = "returned_empty" => ~HasUrls

C13_Witness ==
    /\ query = None
    /\ hpc = "returned_empty"
    /\ http_status = 200

\* The number of words of w that are in the lexicon.
Charged(w, lexicon) ==
    Cardinality({j \in DOMAIN w :
                    \E m \in DOMAIN lexicon : lexicon[m] = w[j]})

\* s is x / d rounded to the nearest integer.
Nearest(s, x, d) == 2 * s * d - d <= 2 * x /\ 2 * x <= 2 * s * d + d

\* C14: in every OK result the score (in hundredths) is within [0, 100], the
\* word count is the number of words the tokenizer returned, and the score is
\* 100 * charged words / max(1, words), to 2 digits.
C14_ScoreAndWordCount ==
    \A i \in DOMAIN task :
        (task[i].result # None /\ task[i].result[1][2] = "OK") =>
            LET w == task[i].article_words[1]
                r == task[i].result[1]
                d == IF Len(w) = 0 THEN 1 ELSE Len(w)
            IN /\ r[3] # None /\ r[4] # None
               /\ r[3][1] >= 0 /\ r[3][1] <= 100 * 100
               /\ r[4][1] = Len(w) /\ r[4][1] >= 0
               /\ Nearest(r[3][1], 100 * 100 * Charged(w, charged_words), d)

C14_Witness ==
    \E i \in DOMAIN task :
        /\ task[i].result # None
        /\ task[i].result[1][2] = "OK"
        /\ Len(task[i].article_words[1]) = 3
        /\ task[i].result[1][3] = Some(3333)
        /\ task[i].result[1][4] = Some(3)

\* C15: the tokenizer's deadline is counted from the start of tokenization,
\* not from the start of the fetch: a job whose fetch handed over the page
\* after less than the fetch budget and whose tokenization ended (words or
\* deadline) after less than the full tokenize budget ends OK, with the time
\* of the tokenization alone as its elapsed time, whatever the two durations
\* add up to.
C15_IndependentBudgets ==
    \A i \in DOMAIN task :
        (/\ task[i].fetched = "ok"
         /\ task[i].fetch_elapsed # None
         /\ task[i].fetch_elapsed[1] < TIMEOUT_SECONDS
         /\ task[i].split \in {"ok", "deadline"}
         /\ task[i].split_elapsed[1] < TIMEOUT_SECONDS) =>
            /\ task[i].pc = "done"
            /\ task[i].split = "ok"
            /\ task[i].result # None
            /\ task[i].result[1][2] = "OK"
            /\ task[i].result[1][5] = task[i].split_elapsed

C15_Witness ==
    \E i \in DOMAIN task :
        /\ task[i].pc = "done"
        /\ task[i].sanitized = "ok"
        /\ task[i].result[1][2] = "OK"
        /\ task[i].fetch_elapsed[1] < TIMEOUT_SECONDS
        /\ task[i].split_elapsed[1] < TIMEOUT_SECONDS
        /\ task[i].split_elapsed[1] > 0
        /\ task[i].fetch_elapsed[1] + task[i].split_elapsed[1] > TIMEOUT_SECONDS

\* C16: every batch completes with no task abandoned: the request can only
\* come to rest with every pipeline having appended its result and the
\* handler having returned the array.
C16_BatchCompletes ==
    (hpc \in {"task_group", "built", "returned_json", "server_error"}
        /\ NoForeignFault) =>
        \/ ENABLED Next
        \/ /\ hpc = "returned_json"
           /\ \A i \in DOMAIN task :
                 task[i].pc = "done" /\ task[i].result # None

\* The order of the stages in one pipeline, as its record shows it.
StageOrder(t) ==
    /\ t.sanitized # "not_called" => t.fetched = "ok"
    /\ t.split # "not_called" => t.sanitized = "ok"
    /\ t.scored => t.split = "ok"
    /\ t.result # None =>
          /\ t.pc = "done"
          /\ t.fetched # "not_called"
          /\ t.split # "running"
    /\ t.pc = "tokenizing" => t.split = "running"

\* No stage that has ended is entered again, and an ended pipeline stays so.
NoReentry(t, u) ==
    /\ t.fetched # "not_called" => u.fetched = t.fetched
    /\ t.sanitized # "not_called" => u.sanitized = t.sanitized
    /\ t.split = "running" => u.split # "not_called"
    /\ t.split \notin {"not_called", "running"} => u.split = t.split
    /\ t.scored => u.scored
    /\ t.result # None => u.result = t.result
    /\ t.pc \in Terminal => u.pc = t.pc

\* C17: within one pipeline the stages run in sequence and at most once:
\* extraction only after a fetch that returned, tokenization only after an
\* accepted extraction, scoring only after a tokenization in time, the append
\* last, and no stage again after it failed or timed out.
C17_StagesInSequenceOnce ==
    [][/\ \A i \in DOMAIN task \cap DOMAIN task' :
             StageOrder(task'[i]) /\ NoReentry(task[i], task'[i])
       /\ Len(processing_results') <= Len(processing_results) + 1]_vars

C17_Witness ==
    \E i \in DOMAIN task :
        /\ task[i].pc = "done"
        /\ task[i].fetched = "ok"
        /\ task[i].sanitized = "ok"
        /\ task[i].split = "ok"
        /\ task[i].scored
        /\ task[i].result # None

\* C18: a result is TIMEOUT only if the deadline of that pipeline's fetch or
\* tokenizer stage expired; a timeout error raised while the stage's own
\* deadline has not expired leaves process_article and no result is appended.
C18_TimeoutOnlyWhenExpired ==
    \A i \in DOMAIN task :
        /\ (task[i].result # None /\ task[i].result[1][2] = "TIMEOUT") =>
              (task[i].fetched = "deadline" \/ task[i].split = "deadline")
        /\ (task[i].fetched = "TimeoutError"
               \/ task[i].split = "TimeoutError") =>
              /\ task[i].pc = "raised"
              /\ task[i].result = None
              /\ \A k \in DOMAIN processing_results :
                    processing_results[k][1] = task[i].url =>
                        \E j \in DOMAIN task :
                            j # i /\ task[j].result
                                       = Some(processing_results[k])

C18_Witness ==
    \E i, j \in DOMAIN task :
        /\ task[i].fetched = "TimeoutError"
        /\ task[i].pc = "raised"
        /\ task[j].split = "TimeoutError"
        /\ task[j].pc = "raised"

\* C19: an array is returned only whole: it has one entry per requested url,
\* entry k is built from the k-th appended result, and when a pipeline raised
\* no array is built or returned.
C19_AllOrNothing ==
    /\ (response # << >> \/ hpc \in {"built", "returned_json"}
           \/ body.kind = "array") =>
          /\ Len(response) = Len(requested_urls)
          /\ Len(response) = Len(processing_results)
          /\ \A k \in DOMAIN response :
                /\ response[k].url = processing_results[k][1]
                /\ response[k].status = processing_results[k][2]
                /\ response[k].score = processing_results[k][3]
                /\ response[k].words_count = processing_results[k][4]
          /\ \A i \in DOMAIN task : task[i].pc = "done"
    /\ (\E i \in DOMAIN task : task[i].pc = "raised") =>
          /\ response = << >>
          /\ body.kind # "array"

C19_Witness ==
    /\ hpc = "returned_json"
    /\ body.kind = "array"
    /\ Len(response) = 2
    /\ response[1].status = "TIMEOUT"
    /\ response[2].status = "OK"
    /\ task[1].result[1][2] = "OK"

====
